---- MODULE Spec2Model ----
(***************************************************************************)
(* Model of src/wordLadder.py: word_ladder(start, end, dictionary), the    *)
(* breadth-first search for a shortest one-letter-at-a-time transformation.*)
(*                                                                         *)
(* A token is a sequence of one-character strings, <<"h","i","t">> for     *)
(* 'hit'.  The caller's set is kept as the sequence of its elements in the *)
(* order the set iterates (lexicon); the function's working copy           *)
(* (dictionary), the deque (queue) and the visited set are the locals of   *)
(* one call.  One action is one straight-line piece of the function: the   *)
(* two edge-case returns, the set-up of the search, one iteration of the   *)
(* while loop (with both for loops), and the return after the loop.        *)
(*                                                                         *)
(* The repository's other programs, each independent of the search, follow *)
(* it: simulate_snake (src/simulateSnake.py), compress_sentence and        *)
(* decompress_sentence (src/sentenceCompression.py) and rank_students      *)
(* (src/studentRanking.py).  Each has its own variables and its own        *)
(* specification, in which the variables of the other programs stay idle.  *)
(***************************************************************************)
EXTENDS Integers, Sequences, FiniteSets

VARIABLES
    start,      \* argument: the starting word
    end,        \* argument: the target word
    lexicon,    \* argument: the caller's set, in its iteration order
    pc,         \* "INITIALIZED" | "EXPANDING" | "FOUND" | "EXHAUSTED"
    dictionary, \* local: set(dictionary) plus start (line 24-25)
    queue,      \* local: deque of (current_word, path) (line 28)
    visited,    \* local: set of words enqueued so far (line 29)
    result,     \* the returned list, once pc is FOUND or EXHAUSTED
    dequeued,   \* history: the words popped by line 32, in order
    examined,   \* history: every new_word built by line 41 in this call
    earlier,    \* history: the results of the earlier calls on these inputs,
                \* and the iteration order the set had in the last of them
    enqueued    \* history: the words appended to the deque, in order

\* simulate_snake(grid, start, directions, food)
VARIABLES
    grid,         \* argument: <<rows, cols>>
    snake_start,  \* argument start: <<row, col>>
    directions,   \* argument: sequence of "U", "D", "L", "R"
    food,         \* argument: the caller's set of food cells
    snake_pc,     \* "idle" | "moving" | "returned"
    snake_body,   \* local: deque of cells, head first (line 19)
    snake_set,    \* local: the cells of the body (line 20)
    food_set,     \* local: set(food) less what was eaten (line 21)
    step,         \* the number of directions the for loop has taken
    snake_result  \* the returned value: the list of cells or "Game Over"

\* compress_sentence(sentence), then decompress_sentence(encoded, mapping)
VARIABLES
    sentence,       \* argument: a sequence of characters
    comp_pc,        \* "idle" | "entered" | "encoding" | "compressed" | "done"
    cleaned_words,  \* local (lines 20-25)
    word_to_id,     \* local (line 28)
    id_to_word,     \* local (line 29), returned as the mapping
    encoded,        \* local (line 30), returned
    next_id,        \* local (line 31)
    word_index,     \* the number of cleaned words the loop of line 33 took
    decompressed    \* what decompress_sentence returned

\* rank_students(students_dict)
VARIABLES
    students_dict,     \* argument: the dict's items in iteration order
    rank_pc,           \* "idle" | "averaging" | "returned"
    student_averages,  \* local (line 27)
    ranked_students    \* the returned list (line 34)

ladderVars == <<start, end, lexicon, pc, dictionary, queue, visited, result,
                dequeued, examined, earlier, enqueued>>

snakeVars == <<grid, snake_start, directions, food, snake_pc, snake_body,
               snake_set, food_set, step, snake_result>>

compVars == <<sentence, comp_pc, cleaned_words, word_to_id, id_to_word,
              encoded, next_id, word_index, decompressed>>

rankVars == <<students_dict, rank_pc, student_averages, ranked_students>>

vars == <<ladderVars, snakeVars, compVars, rankVars>>

\* The programs that are not running.
LadderIdle ==
    /\ start = <<>> /\ end = <<>> /\ lexicon = <<>> /\ pc = "idle"
    /\ dictionary = {} /\ queue = <<>> /\ visited = {} /\ result = <<>>
    /\ dequeued = <<>> /\ examined = <<>> /\ enqueued = <<>>
    /\ earlier = [results |-> {}, order |-> <<>>]

SnakeIdle ==
    /\ grid = <<0, 0>> /\ snake_start = <<0, 0>> /\ directions = <<>>
    /\ food = {} /\ snake_pc = "idle" /\ snake_body = <<>> /\ snake_set = {}
    /\ food_set = {} /\ step = 0 /\ snake_result = <<>>

CompIdle ==
    /\ sentence = <<>> /\ comp_pc = "idle" /\ cleaned_words = <<>>
    /\ word_to_id = <<>> /\ id_to_word = <<>> /\ encoded = <<>>
    /\ next_id = 0 /\ word_index = 0 /\ decompressed = <<>>

RankIdle ==
    /\ students_dict = <<>> /\ rank_pc = "idle" /\ student_averages = <<>>
    /\ ranked_students = <<>>

(***************************************************************************)
(* Bounds of the model and the inputs it ranges over.                      *)
(***************************************************************************)
MaxLex == 4

Range(s) == {s[i] : i \in DOMAIN s}

\* One iteration order of a set, fixed per set.
OrderOf(S) == CHOOSE s \in [1..Cardinality(S) -> S] : Range(s) = S

\* Every iteration order of a set.
OrdersOf(S) == {s \in [1..Cardinality(S) -> S] : Range(s) = S}

\* All two-letter words over a, b, c.
Pairs == {<<x, y>> : x, y \in {"a", "b", "c"}}

\* Words of several lengths, some with characters that are not lowercase.
Mixed == {<<>>, <<"a">>, <<"b">>, <<"A">>, <<"B">>, <<"b", "a">>}

\* All two-letter words over a, b.
Square == {<<x, y>> : x, y \in {"a", "b"}}

(***************************************************************************)
(* The words of the repository's own example (test_word_ladder).           *)
(***************************************************************************)
hit == <<"h", "i", "t">>
cog == <<"c", "o", "g">>
hot == <<"h", "o", "t">>
dot == <<"d", "o", "t">>
dog == <<"d", "o", "g">>
lot == <<"l", "o", "t">>
log == <<"l", "o", "g">>
HitWords == {hot, dot, dog, lot, log, cog}

(***************************************************************************)
(* The pieces of word_ladder.                                              *)
(***************************************************************************)

\* The string the inner for loop iterates (line 36).
AlphabetReversed ==
    <<"z", "y", "x", "w", "v", "u", "t", "s", "r", "q", "p", "o", "n",
      "m", "l", "k", "j", "i", "h", "g", "f", "e", "d", "c", "b", "a">>

Alphabet ==
    <<"a", "b", "c", "d", "e", "f", "g", "h", "i", "j", "k", "l", "m",
      "n", "o", "p", "q", "r", "s", "t", "u", "v", "w", "x", "y", "z">>

\* `word in dictionary` on the caller's set.
Contains(d, word) == \E i \in DOMAIN d : d[i] = word

\* The two edge cases, in the order the code tests them (lines 17-21).
EdgeCaseMembershipFirst(s, e, d) ==
    IF ~Contains(d, e) THEN "absent"
    ELSE IF s = e THEN "trivial"
    ELSE "search"

EdgeCaseNoPreCheck(s, e, d) ==
    IF s = e THEN "trivial" ELSE "search"

EdgeCase(s, e, d) ==
    IF s = e THEN "trivial"
    ELSE IF ~Contains(d, e) THEN "absent"
    ELSE "search"

\* dictionary = set(dictionary); dictionary.add(start) (lines 24-25).
WorkingSet(d, s) == Range(d) \cup {s}

\* The caller's set after lines 24-25: line 24 rebinds the local name to a
\* copy, so the add of line 25 does not reach the caller's object.
CallerSetAliased(d, s) == IF Contains(d, s) THEN d ELSE Append(d, s)

CallerSet(d, s) == d

\* queue.popleft() (line 32): the entry taken and the deque left.
pop(q) == [entry |-> q[Len(q)], rest |-> SubSeq(q, 1, Len(q) - 1)]

popleft(q) == [entry |-> Head(q), rest |-> Tail(q)]

\* current_word[:i] + c + current_word[i+1:] (line 41); i counts from 1 here.
SubstituteInsert(word, i, c) ==
    SubSeq(word, 1, i - 1) \o <<c>> \o SubSeq(word, i, Len(word))

Substitute(word, i, c) ==
    SubSeq(word, 1, i - 1) \o <<c>> \o SubSeq(word, i + 1, Len(word))

\* The new_words the two for loops build for current_word, in the order
\* they build them (lines 35-41): position by position, and for each
\* position the alphabet in order, skipping the word's own letter.
\*
\* The inner loop (lines 36-41): for position i, the alphabet in order
\* without the word's own letter, each letter put in place.
ForPositionAll(current_word, i) ==
    [k \in DOMAIN Alphabet |-> Substitute(current_word, i, Alphabet[k])]

ForPosition(current_word, i) ==
    LET letters == SelectSeq(Alphabet, LAMBDA c : c # current_word[i])
    IN  [k \in DOMAIN letters |-> Substitute(current_word, i, letters[k])]

\* The outer loop (line 35): the positions from i on, in order.
RECURSIVE Generate(_, _)
Generate(current_word, i) ==
    IF i > Len(current_word) THEN <<>>
    ELSE ForPosition(current_word, i) \o Generate(current_word, i + 1)

\* A neighbour generation that walks the caller's set instead.
CandidatesFromLexicon(current_word) ==
    SelectSeq(lexicon,
              LAMBDA w : /\ Len(w) = Len(current_word)
                         /\ Cardinality({i \in DOMAIN w : w[i] # current_word[i]}) = 1)

Candidates(current_word) == Generate(current_word, 1)

\* new_word in dictionary and new_word not in visited (line 48).
AdmissibleUnchecked(new_word, vis) == new_word \notin vis

AdmissibleRevisit(new_word, vis) == new_word \in dictionary

Admissible(new_word, vis) == new_word \in dictionary /\ new_word \notin vis

\* visited.add(new_word) (line 49).
MarkVisitedNot(vis, new_word) == vis

MarkVisited(vis, new_word) == vis \cup {new_word}

\* The body of the for loops for one new_word (lines 43-50): st is the
\* locals as they stand, and found marks the return of line 45, which ends
\* the call.
Examine(new_word, path, st) ==
    LET seen == [st EXCEPT !.examined = Append(@, new_word)]
    IN  IF new_word = end
        THEN [seen EXCEPT !.found = TRUE,
                          !.result = path \o <<new_word>>]
        ELSE IF Admissible(new_word, st.visited)
        THEN [seen EXCEPT
                 !.visited = MarkVisited(@, new_word),
                 !.enqueued = Append(@, new_word),
                 !.queue = Append(@, [word |-> new_word,
                                      path |-> path \o <<new_word>>])]
        ELSE seen

\* The for loops over the candidates lo..hi, in order (lines 35-50): the
\* first half of them, then the second half on the locals `first` that the
\* first half leaves; nothing is examined after the return of line 45.
RECURSIVE Scan(_, _, _, _, _)
Scan(cands, lo, hi, path, st) ==
    IF st.found \/ lo > hi THEN st
    ELSE IF lo = hi THEN Examine(cands[lo], path, st)
    ELSE LET mid == (lo + hi) \div 2
         IN  CHOOSE after \in
                 {Scan(cands, mid + 1, hi, path, first) :
                     first \in {Scan(cands, lo, mid, path, st)}} : TRUE

\* is_one_letter_different (lines 56-62).
is_one_letter_different(word1, word2) ==
    IF Len(word1) # Len(word2) THEN FALSE
    ELSE LET diff_count ==
                 Cardinality({i \in DOMAIN word1 : word1[i] # word2[i]})
         IN  diff_count = 1

(***************************************************************************)
(* The call.                                                               *)
(***************************************************************************)
Entered(s, e, d) ==
    /\ start = s
    /\ end = e
    /\ lexicon = d
    /\ pc = "INITIALIZED"
    /\ dictionary = {}
    /\ queue = <<>>
    /\ visited = {}
    /\ result = <<>>
    /\ dequeued = <<>>
    /\ examined = <<>>
    /\ earlier = [results |-> {}, order |-> <<>>]
    /\ enqueued = <<>>
    /\ SnakeIdle /\ CompIdle /\ RankIdle

Lexicons(W) == {S \in SUBSET W : Cardinality(S) <= MaxLex}

InitPairs ==
    \E s \in Pairs, e \in Pairs, S \in Lexicons(Pairs) :
        Entered(s, e, OrderOf(S))

InitMixed ==
    \E s \in Mixed, e \in Mixed, S \in Lexicons(Mixed) :
        Entered(s, e, OrderOf(S))

InitHit ==
    \E s \in {hit, cog}, e \in {hit, cog}, S \in SUBSET HitWords :
        Entered(s, e, OrderOf(S))

Init == InitPairs \/ InitMixed \/ InitHit

\* if start == end: return [start] (lines 17-18).
ReturnTrivial ==
    /\ pc = "INITIALIZED"
    /\ EdgeCase(start, end, lexicon) = "trivial"
    /\ result' = <<start>>
    /\ pc' = "FOUND"
    /\ UNCHANGED <<start, end, lexicon, dictionary, queue, visited,
                   dequeued, examined, earlier, enqueued>>
    /\ UNCHANGED <<snakeVars, compVars, rankVars>>

\* if end not in dictionary: return [] (lines 20-21).
ReturnAbsent ==
    /\ pc = "INITIALIZED"
    /\ EdgeCase(start, end, lexicon) = "absent"
    /\ result' = <<>>
    /\ pc' = "EXHAUSTED"
    /\ UNCHANGED <<start, end, lexicon, dictionary, queue, visited,
                   dequeued, examined, earlier, enqueued>>
    /\ UNCHANGED <<snakeVars, compVars, rankVars>>

\* The copy of the set and the BFS setup (lines 24-29).
Setup ==
    /\ pc = "INITIALIZED"
    /\ EdgeCase(start, end, lexicon) = "search"
    /\ dictionary' = WorkingSet(lexicon, start)
    /\ lexicon' = CallerSet(lexicon, start)
    /\ queue' = <<[word |-> start, path |-> <<start>>]>>
    /\ enqueued' = <<start>>
    /\ visited' = {start}
    /\ pc' = "EXPANDING"
    /\ UNCHANGED <<start, end, result, dequeued, examined, earlier>>
    /\ UNCHANGED <<snakeVars, compVars, rankVars>>

\* One iteration of `while queue` (lines 31-50). Each value of the
\* iteration is bound once: the entry taken, its word and path, the
\* candidates, and the state the scan of the candidates leaves.
Dequeue ==
    /\ pc = "EXPANDING"
    /\ queue # <<>>
    /\ \E taken \in {popleft(queue)} :
       \E current_word \in {taken.entry.word}, path \in {taken.entry.path} :
       \E cands \in {Candidates(current_word)} :
       \E st \in {Scan(cands, 1, Len(cands), path,
                      [queue |-> taken.rest, visited |-> visited,
                       examined |-> examined, enqueued |-> enqueued,
                       found |-> FALSE, result |-> <<>>])} :
           /\ dequeued' = Append(dequeued, current_word)
           /\ queue' = st.queue
           /\ visited' = st.visited
           /\ examined' = st.examined
           /\ enqueued' = st.enqueued
           /\ result' = st.result
           /\ pc' = IF st.found THEN "FOUND" ELSE "EXPANDING"
    /\ UNCHANGED <<start, end, lexicon, dictionary, earlier>>
    /\ UNCHANGED <<snakeVars, compVars, rankVars>>

\* The loop ends on an empty queue: return [] (lines 31, 53).
Exhaust ==
    /\ pc = "EXPANDING"
    /\ queue = <<>>
    /\ result' = <<>>
    /\ pc' = "EXHAUSTED"
    /\ UNCHANGED <<start, end, lexicon, dictionary, queue, visited,
                   dequeued, examined, earlier, enqueued>>
    /\ UNCHANGED <<snakeVars, compVars, rankVars>>

Next == ReturnTrivial \/ ReturnAbsent \/ Setup \/ Dequeue \/ Exhaust

Spec == Init /\ [][Next]_vars

(***************************************************************************)
(* A second call on the same arguments, as the module's own driver calls   *)
(* word_ladder again and again in one process: the locals of the finished  *)
(* call are gone, and the caller's set, with the same contents, may        *)
(* iterate in another order.                                               *)
(***************************************************************************)
InitAgain ==
    \E s \in Square, e \in Square, S \in SUBSET Square :
        \E d \in OrdersOf(S) : Entered(s, e, d)

Recall ==
    /\ pc \in {"FOUND", "EXHAUSTED"}
    /\ \E d \in OrdersOf(Range(lexicon)) : lexicon' = d
    /\ earlier' = [results |-> earlier.results \cup {result}, order |-> lexicon]
    /\ pc' = "INITIALIZED"
    /\ dictionary' = {}
    /\ queue' = <<>>
    /\ visited' = {}
    /\ result' = <<>>
    /\ dequeued' = <<>>
    /\ examined' = <<>>
    /\ enqueued' = <<>>
    /\ UNCHANGED <<start, end>>
    /\ UNCHANGED <<snakeVars, compVars, rankVars>>

NextAgain == Next \/ Recall

SpecAgain == InitAgain /\ [][NextAgain]_vars

(***************************************************************************)
(* A second call with start added to the caller's set: after              *)
(* word_ladder(start, end, L) has returned, the caller calls               *)
(* word_ladder(start, end, L | {start}). The locals of the finished call   *)
(* are gone; its result is kept in `earlier` for comparison.               *)
(***************************************************************************)
CallWithStart ==
    /\ pc \in {"FOUND", "EXHAUSTED"}
    /\ start # end
    /\ earlier.results = {}
    /\ lexicon' = IF Contains(lexicon, start) THEN lexicon
                  ELSE Append(lexicon, start)
    /\ earlier' = [results |-> {result}, order |-> lexicon]
    /\ pc' = "INITIALIZED"
    /\ dictionary' = {}
    /\ queue' = <<>>
    /\ visited' = {}
    /\ result' = <<>>
    /\ dequeued' = <<>>
    /\ examined' = <<>>
    /\ enqueued' = <<>>
    /\ UNCHANGED <<start, end>>
    /\ UNCHANGED <<snakeVars, compVars, rankVars>>

NextWithStart == Next \/ CallWithStart

SpecWithStart == Init /\ [][NextWithStart]_vars

\* The call runs on without suspension (a synchronous function): a step
\* that can be taken is taken.
SpecLive == Init /\ [][Next]_vars /\ WF_vars(Next)

(***************************************************************************)
(* What the claims speak of, stated without the search: the caller's set,  *)
(* adjacency as Hamming distance 1, and the transformation sequences of a  *)
(* given number of tokens, enumerated exhaustively.                        *)
(***************************************************************************)
Lex == Range(lexicon)

Returned == pc \in {"FOUND", "EXHAUSTED"}

AtoZ ==
    <<"a", "b", "c", "d", "e", "f", "g", "h", "i", "j", "k", "l", "m",
      "n", "o", "p", "q", "r", "s", "t", "u", "v", "w", "x", "y", "z">>

Lowercase(w) == \A i \in DOMAIN w : w[i] \in Range(AtoZ)

LowercaseInputs ==
    Lowercase(start) /\ Lowercase(end) /\ \A w \in Lex : Lowercase(w)

Hamming1(u, v) ==
    /\ Len(u) = Len(v)
    /\ Cardinality({i \in DOMAIN u : u[i] # v[i]}) = 1

\* Every sequence of n tokens that begins with start, changes one character
\* at each step and has every token after the first in the caller's set.
RECURSIVE ValidPaths(_)
ValidPaths(n) ==
    IF n <= 1 THEN {<<start>>}
    ELSE UNION {{Append(p, w) : w \in {x \in Lex : Hamming1(p[Len(p)], x)}} :
                p \in ValidPaths(n - 1)}

\* The valid sequences of n tokens that end with end.
Ladders(n) == {p \in ValidPaths(n) : p[n] = end}

\* A valid sequence to end exists (one without repeats has at most
\* |Lex| + 1 tokens).
Reachable == \E n \in 1..(Cardinality(Lex) + 1) : Ladders(n) # {}

\* C1: minimality. For lowercase start, end and lexicon, when word_ladder
\* returns a non-empty path, no valid transformation sequence from start to
\* end has fewer tokens than the returned path.
C1_Minimality ==
    (Returned /\ result # <<>> /\ LowercaseInputs)
        => \A n \in 1..(Len(result) - 1) : Ladders(n) = {}

\* A three-token path was returned although a longer valid sequence without
\* repeats also leads to end.
C1_Witness ==
    /\ pc = "FOUND"
    /\ LowercaseInputs
    /\ Len(result) = 3
    /\ \E p \in Ladders(4) : Cardinality(Range(p)) = 4

\* C2: completeness. Whenever start != end and some sequence of
\* single-character substitutions leads from start to end with every token
\* after the first in L, the result is not the empty list.
C2_Completeness ==
    (Returned /\ start # end /\ Reachable) => result # <<>>

\* C2 on lowercase inputs only: there the search is complete, so the
\* failures of C2 all involve a character outside a-z.
C2_LowercaseCompleteness ==
    (Returned /\ start # end /\ Reachable /\ LowercaseInputs) => result # <<>>

\* C3: in every non-empty result, consecutive elements have equal length and
\* differ in exactly one position; is_one_letter_different accepts each step.
C3_StepsAreSingleEdits ==
    \A i \in 1..(Len(result) - 1) :
        /\ Len(result[i]) = Len(result[i + 1])
        /\ Hamming1(result[i], result[i + 1])
        /\ is_one_letter_different(result[i], result[i + 1])

\* A path of three or more tokens was returned.
C3_Witness == pc = "FOUND" /\ Len(result) >= 3

\* C4: in every non-empty result, every element after the first is a member
\* of the caller's lexicon, end included, and none of them is the start
\* token let in through the working copy's union.
C4_TailInLexicon ==
    \A i \in 2..Len(result) : result[i] \in Lex /\ result[i] # start

\* A path with an intermediate token was returned for a start that is not
\* in the caller's lexicon.
C4_Witness == pc = "FOUND" /\ Len(result) >= 3 /\ start \notin Lex

\* C5: when start = end the call returns exactly [start], whether or not end
\* is in the lexicon, and nothing is enqueued, dequeued or generated.
C5_TrivialPath ==
    start = end =>
        /\ pc \in {"INITIALIZED", "FOUND"}
        /\ pc = "FOUND" => result = <<start>>
        /\ queue = <<>> /\ visited = {} /\ dequeued = <<>> /\ examined = <<>>

\* The call returned for start = end with end absent from the lexicon.
C5_Witness == pc = "FOUND" /\ start = end /\ end \notin Lex

\* C6: when start != end and end is not in L the call returns the empty list
\* straight from the pre-check: nothing is dequeued, no neighbour is
\* generated and the visited set is never populated.
C6_AbsentTarget ==
    (start # end /\ end \notin Lex) =>
        /\ pc \in {"INITIALIZED", "EXHAUSTED"}
        /\ pc = "EXHAUSTED" => result = <<>>
        /\ queue = <<>> /\ visited = {} /\ dequeued = <<>> /\ examined = <<>>

\* The call returned for a target that is absent although the lexicon holds
\* a neighbour of start.
C6_Witness ==
    /\ pc = "EXHAUSTED"
    /\ start # end
    /\ end \notin Lex
    /\ \E w \in Lex : Hamming1(start, w)

\* C7: the search is alphabet-agnostic. For tokens over any alphabet, not
\* only a-z, word_ladder returns a shortest valid sequence along Hamming
\* adjacency whenever one exists; [start, end] when end is in L and one
\* substitution away.
C7_AlphabetAgnostic ==
    (Returned /\ start # end) =>
        \A n \in 2..(Cardinality(Lex) + 1) :
            (Ladders(n) # {} /\ \A k \in 1..(n - 1) : Ladders(k) = {})
                => result \in Ladders(n)

\* The place of a step in the order the for loops generate candidates: the
\* position changed first, then the new letter from a to z.
EditKey(u, v) ==
    LET pos == CHOOSE j \in DOMAIN u : u[j] # v[j]
        rank == CHOOSE r \in DOMAIN AtoZ : AtoZ[r] = v[pos]
    IN  (pos - 1) * Len(AtoZ) + rank

\* Of two ladders of the same length, p is discovered before q: at the
\* first step where they part, p's step is generated first.
DiscoveredBefore(p, q) ==
    \E k \in 1..(Len(p) - 1) :
        /\ \A j \in 1..k : p[j] = q[j]
        /\ EditKey(p[k], p[k + 1]) < EditKey(q[k], q[k + 1])

\* C8: tie-breaking. Among several minimum-length paths word_ladder returns
\* the one discovered first under FIFO order and position-major, then a-to-z
\* generation; for 'hit', 'cog' and the six words of the example it returns
\* exactly hit, hot, dot, dog, cog.
C8_TieBreak ==
    (pc = "FOUND" /\ LowercaseInputs) =>
        /\ \A p \in Ladders(Len(result)) :
               p = result \/ DiscoveredBefore(result, p)
        /\ (start = hit /\ end = cog /\ Lex = HitWords)
               => result = <<hit, hot, dot, dog, cog>>

\* The example's call returned, and two ladders of five tokens exist.
C8_Witness ==
    /\ pc = "FOUND"
    /\ start = hit /\ end = cog /\ Lex = HitWords
    /\ Cardinality(Ladders(5)) >= 2

\* C9: determinism. A call returns what every earlier call on the same
\* start, end and lexicon contents returned, whatever the earlier calls did
\* and in whatever order the lexicon set iterates.
C9_Deterministic ==
    Returned => \A r \in earlier.results : r = result

\* A later call returned a path of three or more tokens where two ladders of
\* that length exist, with the set iterating in another order than in the
\* call before.
C9_Witness ==
    /\ pc = "FOUND"
    /\ earlier.results # {}
    /\ earlier.order # lexicon
    /\ Len(result) >= 3
    /\ Cardinality(Ladders(Len(result))) >= 2

\* C10: length mismatch. When len(start) != len(end) with end in L, end is
\* never produced as a candidate (every candidate has start's length), the
\* loop runs at most |L| + 1 times, and the call returns the empty list from
\* the exhausted queue, never a path.
C10_LengthMismatch ==
    (Len(start) # Len(end) /\ end \in Lex) =>
        /\ pc # "FOUND"
        /\ \A w \in Range(examined) : Len(w) = Len(start) /\ w # end
        /\ Len(dequeued) <= Cardinality(Lex) + 1
        /\ pc = "EXHAUSTED" =>
               result = <<>> /\ queue = <<>> /\ dequeued # <<>>

\* A search over two words ran to exhaustion for a target of another length.
C10_Witness ==
    /\ pc = "EXHAUSTED"
    /\ Len(start) # Len(end)
    /\ end \in Lex
    /\ Len(dequeued) >= 2

(***************************************************************************)
(* simulate_snake (src/simulateSnake.py).  A cell is <<row, col>>, the     *)
(* body is head first as the deque is.  snake_pc = "Game Over" stands for  *)
(* the return of the string 'Game Over' (lines 50 and 55); snake_result    *)
(* holds the list returned at line 78.  step counts the directions the     *)
(* for loop has taken from the list.                                       *)
(***************************************************************************)
MaxMoves == 4

Dirs == {"U", "D", "L", "R"}

DirSeqs == UNION {[1..n -> Dirs] : n \in 0..MaxMoves}

\* direction_map (lines 24-29).
direction_map ==
    [U |-> <<-1, 0>>, D |-> <<1, 0>>, L |-> <<0, -1>>, R |-> <<0, 1>>]

\* new_head (line 42).
NewHead(head, direction) ==
    <<head[1] + direction_map[direction][1],
      head[2] + direction_map[direction][2]>>

\* The wall check of line 48.
HitsWall(new_head, g) ==
    \/ new_head[1] < 0
    \/ new_head[1] >= g[1]
    \/ new_head[2] < 0
    \/ new_head[2] >= g[2]

\* The self check of line 53, made before the tail is removed.
HitsSelfTailFree(new_head, body, set) ==
    new_head \in set \ {body[Len(body)]}

HitsSelf(new_head, body, set) == new_head \in set

\* tail = snake_body.pop() (line 69), `grown` being the deque after the
\* appendleft of line 58.
KeepTail(grown) == grown

PopTail(grown) == SubSeq(grown, 1, Len(grown) - 1)

\* The caller's food set after food_set.remove(new_head) (line 64): line 21
\* made food_set a copy, so the removal does not reach the caller's set.
CallerFoodAliased(f, new_head) == f \ {new_head}

CallerFood(f, new_head) == f

SnakeEntered(g, st, ds, f) ==
    /\ grid = g
    /\ snake_start = st
    /\ directions = ds
    /\ food = f
    /\ snake_pc = "entered"
    /\ snake_body = <<>>
    /\ snake_set = {}
    /\ food_set = {}
    /\ step = 0
    /\ snake_result = <<>>
    /\ LadderIdle /\ CompIdle /\ RankIdle

\* Calls on a 3x3 grid: every list of at most MaxMoves directions.
InitSnakeSmall ==
    \E st \in {<<1, 1>>, <<0, 1>>}, ds \in DirSeqs,
       f \in SUBSET {<<0, 1>>, <<0, 2>>, <<1, 2>>} :
        SnakeEntered(<<3, 3>>, st, ds, f)

\* The calls of the repository's tests on the 5x5 grid (lines 122-125,
\* 159-166, 175-182).
InitSnakeTests ==
    \E ds \in {<<"R", "D", "L", "U">>, <<"U", "R">>,
               <<"U", "U", "R", "D", "D", "L", "L", "U">>},
       f \in {{}, {<<1, 2>>, <<2, 3>>}} :
        SnakeEntered(<<5, 5>>, <<2, 2>>, ds, f)

InitSnake == InitSnakeSmall \/ InitSnakeTests

\* Lines 16-29: the deque, the set and the copy of the food.
SnakeSetup ==
    /\ snake_pc = "entered"
    /\ snake_body' = <<snake_start>>
    /\ snake_set' = {snake_start}
    /\ food_set' = food
    /\ snake_pc' = "moving"
    /\ UNCHANGED <<grid, snake_start, directions, food, step, snake_result>>
    /\ UNCHANGED <<ladderVars, compVars, rankVars>>

\* One iteration of the for loop (lines 34-73).
Move ==
    /\ snake_pc = "moving"
    /\ step < Len(directions)
    /\ step' = step + 1
    /\ LET direction == directions[step + 1]
           new_head == NewHead(snake_body[1], direction)
           grown == <<new_head>> \o snake_body
       IN  IF HitsWall(new_head, grid)
           THEN /\ snake_pc' = "Game Over"
                /\ UNCHANGED <<snake_body, snake_set, food_set, food>>
           ELSE IF HitsSelf(new_head, snake_body, snake_set)
           THEN /\ snake_pc' = "Game Over"
                /\ UNCHANGED <<snake_body, snake_set, food_set, food>>
           ELSE IF new_head \in food_set
           THEN /\ snake_body' = grown
                /\ snake_set' = snake_set \cup {new_head}
                /\ food_set' = food_set \ {new_head}
                /\ food' = CallerFood(food, new_head)
                /\ snake_pc' = "moving"
           ELSE /\ snake_body' = PopTail(grown)
                /\ snake_set' = (snake_set \cup {new_head})
                                    \ {grown[Len(grown)]}
                /\ UNCHANGED <<food_set, food>>
                /\ snake_pc' = "moving"
    /\ UNCHANGED <<grid, snake_start, directions, snake_result>>
    /\ UNCHANGED <<ladderVars, compVars, rankVars>>

\* The loop is over: return list(snake_body) (lines 76-78).
SnakeReturn ==
    /\ snake_pc = "moving"
    /\ step = Len(directions)
    /\ snake_result' = snake_body
    /\ snake_pc' = "returned"
    /\ UNCHANGED <<grid, snake_start, directions, food, snake_body,
                   snake_set, food_set, step>>
    /\ UNCHANGED <<ladderVars, compVars, rankVars>>

NextSnake == SnakeSetup \/ Move \/ SnakeReturn

\* The call is synchronous: a step that can be taken is taken.
SpecSnake == InitSnake /\ [][NextSnake]_vars /\ WF_vars(NextSnake)

(***************************************************************************)
(* compress_sentence and decompress_sentence (src/sentenceCompression.py). *)
(* A string is a sequence of one-character strings; a dict is a function   *)
(* on its keys.                                                            *)
(***************************************************************************)
MaxChars == 6

SentenceChars == {"a", "A", ",", " ", "_"}

Sentences == UNION {[1..n -> SentenceChars] : n \in 0..MaxChars}

\* Inputs of run_comprehensive_tests (lines 249, 273).
TheCatSat ==
    <<"t", "h", "e", " ", "c", "a", "t", " ", "s", "a", "t", " ", "o", "n", " ", "t", "h", "e", " ", "m", "a", "t">>

HelloWorld ==
    <<"h", "e", "l", "l", "o", ",", " ", "w", "o", "r", "l", "d", "!", " ", "h", "o", "w", " ", "a", "r", "e", " ", "y", "o", "u", "?">>

ascii_uppercase ==
    <<"A", "B", "C", "D", "E", "F", "G", "H", "I", "J", "K", "L", "M",
      "N", "O", "P", "Q", "R", "S", "T", "U", "V", "W", "X", "Y", "Z">>

ascii_lowercase ==
    <<"a", "b", "c", "d", "e", "f", "g", "h", "i", "j", "k", "l", "m",
      "n", "o", "p", "q", "r", "s", "t", "u", "v", "w", "x", "y", "z">>

digits == {"0", "1", "2", "3", "4", "5", "6", "7", "8", "9"}

Whitespace == {" ", "\t", "\n", "\r"}

\* sentence.lower() (line 17).
lower(s) ==
    [i \in DOMAIN s |->
        IF \E k \in DOMAIN ascii_uppercase : ascii_uppercase[k] = s[i]
        THEN ascii_lowercase[CHOOSE k \in DOMAIN ascii_uppercase :
                                 ascii_uppercase[k] = s[i]]
        ELSE s[i]]

\* .split() (line 17): the runs of non-whitespace from position i on, `word`
\* being the run under way.
RECURSIVE split(_, _, _)
split(s, i, word) ==
    LET done == IF word = <<>> THEN <<>> ELSE <<word>>
    IN  IF i > Len(s) THEN done
        ELSE IF s[i] \in Whitespace THEN done \o split(s, i + 1, <<>>)
        ELSE split(s, i + 1, Append(word, s[i]))

\* \w of line 23: a letter, a digit or the underscore.
IsWordChar(c) ==
    c \in Range(ascii_lowercase) \cup Range(ascii_uppercase)
              \cup digits \cup {"_"}

\* re.sub(r'[^\w]', '', word) (line 23).
KeepAll(word) == word

Clean(word) == SelectSeq(word, IsWordChar)

\* Lines 17-25: the cleaned, non-empty words.
CleanedWords(s) ==
    LET words == split(lower(s), 1, <<>>)
        cleaned == [k \in DOMAIN words |-> Clean(words[k])]
    IN  SelectSeq(cleaned, LAMBDA cleaned_word : cleaned_word # <<>>)

\* if word not in word_to_id (line 34).
AlwaysNew(word, map) == TRUE

IsNew(word, map) == word \notin DOMAIN map

\* d[key] = value on a dict.
Assign(d, key, value) ==
    [k \in DOMAIN d \cup {key} |-> IF k = key THEN value ELSE d[k]]

\* ' '.join(words) (line 96).
RECURSIVE join(_)
join(words) ==
    IF words = <<>> THEN <<>>
    ELSE IF Len(words) = 1 THEN words[1]
    ELSE words[1] \o <<" ">> \o join(Tail(words))

CompEntered(s) ==
    /\ sentence = s
    /\ comp_pc = "entered"
    /\ cleaned_words = <<>>
    /\ word_to_id = <<>>
    /\ id_to_word = <<>>
    /\ encoded = <<>>
    /\ next_id = 0
    /\ word_index = 0
    /\ decompressed = <<>>
    /\ LadderIdle /\ SnakeIdle /\ RankIdle

InitCompress == \E s \in Sentences \cup {TheCatSat, HelloWorld} : CompEntered(s)

\* Lines 17-31: the words are cleaned, the dicts and the list are empty.
CleanWords ==
    /\ comp_pc = "entered"
    /\ cleaned_words' = CleanedWords(sentence)
    /\ word_to_id' = <<>>
    /\ id_to_word' = <<>>
    /\ encoded' = <<>>
    /\ next_id' = 1
    /\ comp_pc' = "encoding"
    /\ UNCHANGED <<sentence, word_index, decompressed>>
    /\ UNCHANGED <<ladderVars, snakeVars, rankVars>>

\* One iteration of `for word in cleaned_words` (lines 33-41).
Encode ==
    /\ comp_pc = "encoding"
    /\ word_index < Len(cleaned_words)
    /\ word_index' = word_index + 1
    /\ LET word == cleaned_words[word_index + 1]
           fresh == IsNew(word, word_to_id)
           ids == IF fresh THEN Assign(word_to_id, word, next_id)
                  ELSE word_to_id
       IN  /\ word_to_id' = ids
           /\ id_to_word' = IF fresh THEN Assign(id_to_word, next_id, word)
                            ELSE id_to_word
           /\ next_id' = IF fresh THEN next_id + 1 ELSE next_id
           /\ encoded' = Append(encoded, ids[word])
    /\ UNCHANGED <<sentence, comp_pc, cleaned_words, decompressed>>
    /\ UNCHANGED <<ladderVars, snakeVars, rankVars>>

\* return encoded, id_to_word (line 43).
CompReturn ==
    /\ comp_pc = "encoding"
    /\ word_index = Len(cleaned_words)
    /\ comp_pc' = "compressed"
    /\ UNCHANGED <<sentence, cleaned_words, word_to_id, id_to_word, encoded,
                   next_id, word_index, decompressed>>
    /\ UNCHANGED <<ladderVars, snakeVars, rankVars>>

\* decompress_sentence(encoded, id_to_word) (lines 84-96).
Decompress ==
    /\ comp_pc = "compressed"
    /\ decompressed' = join([k \in DOMAIN encoded |-> id_to_word[encoded[k]]])
    /\ comp_pc' = "decompressed"
    /\ UNCHANGED <<sentence, cleaned_words, word_to_id, id_to_word, encoded,
                   next_id, word_index>>
    /\ UNCHANGED <<ladderVars, snakeVars, rankVars>>

NextCompress == CleanWords \/ Encode \/ CompReturn \/ Decompress

SpecCompress == InitCompress /\ [][NextCompress]_vars

(***************************************************************************)
(* rank_students and calculate_average (src/studentRanking.py).  A name is *)
(* the sequence of its code points, so that names compare as Python        *)
(* strings do; a score is a whole number of thousandths and an average a   *)
(* whole number of hundredths; the dict is the sequence of its items in    *)
(* insertion order, each item <<name, scores>>.                            *)
(***************************************************************************)
MaxStudents == 3

\* "A", "B", "AB", "a".
Names == {<<65>>, <<66>>, <<65, 66>>, <<97>>}

\* [], [1.0], [1.004], [2.0], [1.0, 2.0], [2.0, 1.004].
ScoreLists ==
    {<<>>, <<1000>>, <<1004>>, <<2000>>, <<1000, 2000>>, <<2000, 1004>>}

StudentDicts ==
    {d \in UNION {[1..n -> Names \X ScoreLists] : n \in 0..MaxStudents} :
        \A i, j \in DOMAIN d : i # j => d[i][1] # d[j][1]}

RECURSIVE sum(_)
sum(scores) == IF scores = <<>> THEN 0 ELSE Head(scores) + sum(Tail(scores))

\* round(x, 2) for x = total / count thousandths, in hundredths: the
\* nearest hundredth (no input lies halfway between two).
round(total, count) == (2 * total + 10 * count) \div (20 * count)

\* calculate_average (lines 1-14).
calculate_average(scores) ==
    IF scores = <<>> THEN 0 ELSE round(sum(scores), Len(scores))

\* Python's < on strings.
StrLess(u, v) ==
    \/ Len(u) < Len(v) /\ SubSeq(v, 1, Len(u)) = u
    \/ \E i \in 1..Len(u) :
           /\ i <= Len(v)
           /\ SubSeq(u, 1, i - 1) = SubSeq(v, 1, i - 1)
           /\ u[i] < v[i]

\* key=lambda x: (-x[1], x[0]) (line 34); x is <<name, average>>.
KeyPlain(x) == <<x[2], x[1]>>

Key(x) == <<-x[2], x[1]>>

\* Python's < on the key tuples.
KeyLess(a, b) == a[1] < b[1] \/ (a[1] = b[1] /\ StrLess(a[2], b[2]))

\* sorted(items, key=...) (line 34): stable, each item placed behind the
\* items already placed that it is not less than.
Insert(placed, x) ==
    LET before == {i \in 0..Len(placed) :
                      \A j \in 1..i : ~KeyLess(Key(x), Key(placed[j]))}
        at == CHOOSE i \in before : \A j \in before : j <= i
    IN  SubSeq(placed, 1, at) \o <<x>> \o SubSeq(placed, at + 1, Len(placed))

RECURSIVE sorted(_)
sorted(items) ==
    IF items = <<>> THEN <<>>
    ELSE Insert(sorted(SubSeq(items, 1, Len(items) - 1)), items[Len(items)])

InitRank ==
    \E d \in StudentDicts :
        /\ students_dict = d
        /\ rank_pc = "averaging"
        /\ student_averages = <<>>
        /\ ranked_students = <<>>
        /\ LadderIdle /\ SnakeIdle /\ CompIdle

\* One iteration of `for name, scores in students_dict.items()` (lines
\* 28-30).
Average ==
    /\ rank_pc = "averaging"
    /\ Len(student_averages) < Len(students_dict)
    /\ LET item == students_dict[Len(student_averages) + 1]
           name == item[1]
           average == calculate_average(item[2])
       IN  student_averages' = Append(student_averages, <<name, average>>)
    /\ UNCHANGED <<students_dict, rank_pc, ranked_students>>
    /\ UNCHANGED <<ladderVars, snakeVars, compVars>>

\* The sort and the return (lines 34-36).
Rank ==
    /\ rank_pc = "averaging"
    /\ Len(student_averages) = Len(students_dict)
    /\ ranked_students' = sorted(student_averages)
    /\ rank_pc' = "returned"
    /\ UNCHANGED <<students_dict, student_averages>>
    /\ UNCHANGED <<ladderVars, snakeVars, compVars>>

NextRank == Average \/ Rank

SpecRank == InitRank /\ [][NextRank]_vars

\* C11: the caller's lexicon is never mutated. Every step of a call, on
\* every return path, leaves the caller's set with the contents it had, also
\* when start is absent from it and is added to the working set.
C11_CallerSetUntouched == [][Range(lexicon') = Range(lexicon)]_vars

\* A search returned for a start that is not in the caller's set and is in
\* the working set.
C11_Witness ==
    pc = "FOUND" /\ Len(result) >= 2 /\ start \notin Lex /\ start \in dictionary

\* The words of the caller's set and start form one chain from start to
\* end: p lists them all, each next to the one before and to no earlier one.
IsChain(p) ==
    /\ Range(p) = Lex \cup {start}
    /\ \A i, j \in DOMAIN p : j > i + 1 => ~Hamming1(p[i], p[j])

\* C12: every non-empty result begins with start and ends with end; when end
\* is in L and one substitution away from start the result is exactly
\* [start, end], also when start is not in L; when L is a single chain from
\* start to end the result is that chain.
C12_Endpoints ==
    Returned =>
        /\ result # <<>> => result[1] = start /\ result[Len(result)] = end
        /\ (start # end /\ end \in Lex /\ Hamming1(start, end))
               => result = <<start, end>>
        /\ \A p \in Ladders(Cardinality(Lex \cup {start})) :
               IsChain(p) => result = p

\* C12 on lowercase inputs only, where it holds: its failures all involve a
\* character outside a-z.
C12_LowercaseEndpoints == LowercaseInputs => C12_Endpoints

\* The steps the spec's state machine allows: INITIALIZED to EXPANDING or,
\* by one of the two short-circuits, straight to a terminal state; EXPANDING
\* to a terminal state; no state is left in any other way.
AllowedSteps ==
    {<<"INITIALIZED", "EXPANDING">>, <<"INITIALIZED", "FOUND">>,
     <<"INITIALIZED", "EXHAUSTED">>,
     <<"EXPANDING", "FOUND">>, <<"EXPANDING", "EXHAUSTED">>}

\* C18: termination. Every call moves INITIALIZED -> EXPANDING -> {FOUND,
\* EXHAUSTED} (the short-circuits going straight to the terminal state),
\* always reaches FOUND or EXHAUSTED, and dequeues at most |L| + 1 times.
C18_Termination ==
    /\ <>Returned
    /\ [][pc' # pc => (<<pc, pc'>> \in AllowedSteps)]_vars
    /\ [](Len(dequeued) <= Cardinality(Lex) + 1)

\* A search that dequeued start and every word of L but end, and ran dry.
C18_Witness ==
    /\ pc = "EXHAUSTED"
    /\ Len(dequeued) >= 3
    /\ Len(dequeued) = Cardinality(Lex)

Depth(entry) == Len(entry.path)

\* C19: the frontier's order. The path lengths of the queue's entries never
\* decrease from front to back, the back entry is at most one level deeper
\* than the front entry, and the words are dequeued in the order they were
\* enqueued: what was enqueued is what was dequeued followed by the queue.
C19_FrontierOrder ==
    /\ \A i \in 1..(Len(queue) - 1) : Depth(queue[i]) <= Depth(queue[i + 1])
    /\ queue # <<>> => Depth(queue[Len(queue)]) <= Depth(queue[1]) + 1
    /\ enqueued = dequeued \o [i \in DOMAIN queue |-> queue[i].word]

\* The queue holds entries of two levels after two words were dequeued.
C19_Witness ==
    /\ pc = "EXPANDING"
    /\ Len(dequeued) >= 2
    /\ Len(queue) >= 2
    /\ Depth(queue[1]) < Depth(queue[Len(queue)])

\* C20: the visited set is at every point exactly the set of the tokens ever
\* enqueued, start included; no token is enqueued twice; the set only grows
\* and never has more than |L| + 1 elements.
C20_VisitedSet ==
    /\ [](/\ visited = Range(enqueued)
          /\ Cardinality(Range(enqueued)) = Len(enqueued)
          /\ Cardinality(visited) <= Cardinality(Lex) + 1)
    /\ [][visited \subseteq visited']_vars

\* A search that enqueued start and every word of L but end.
C20_Witness ==
    /\ pc = "EXHAUSTED"
    /\ Cardinality(visited) >= 3
    /\ Cardinality(visited) = Cardinality(Lex)
    /\ start \notin Lex

SnakeOver == snake_pc \in {"Game Over", "returned"}

\* C13: on a 5x5 grid with start (2,2), no food and directions R, D, L, U
\* (a closed loop that brings the head back onto the starting cell)
\* simulate_snake returns 'Game Over'.
C13_HitSelf ==
    (/\ SnakeOver
     /\ grid = <<5, 5>>
     /\ snake_start = <<2, 2>>
     /\ food = {}
     /\ directions = <<"R", "D", "L", "U">>)
        => snake_pc = "Game Over"

\* The unit step of a direction and the cell it leads to from the head, as
\* the claims word them.
Delta(direction) ==
    CASE direction = "U" -> <<-1, 0>>
      [] direction = "D" -> <<1, 0>>
      [] direction = "L" -> <<0, -1>>
      [] direction = "R" -> <<0, 1>>

Target(direction) ==
    <<snake_body[1][1] + Delta(direction)[1],
      snake_body[1][2] + Delta(direction)[2]>>

Outside(cell) ==
    cell[1] < 0 \/ cell[1] >= grid[1] \/ cell[2] < 0 \/ cell[2] >= grid[2]

Completed == IF snake_pc = "Game Over" THEN step - 1 ELSE step

RECURSIVE HeadAfter(_)
HeadAfter(k) ==
    IF k = 0 THEN snake_start
    ELSE <<HeadAfter(k - 1)[1] + Delta(directions[k])[1],
           HeadAfter(k - 1)[2] + Delta(directions[k])[2]>>

\* The food cells eaten so far: those the head has moved onto.
Eaten == food \cap {HeadAfter(k) : k \in 1..Completed}

\* C15: after every completed move the body is head first (the cell just
\* entered in front, each cell next to the one behind it), has no duplicate
\* cells, agrees with snake_set, and has length 1 plus the number of food
\* cells eaten so far; a move onto a food cell grows the snake by one and
\* removes that food from the working food set, any other move leaves the
\* length unchanged; the caller's food set is not modified.
C15_Body ==
    /\ [](snake_pc \in {"moving", "returned", "Game Over"} =>
            /\ snake_body[1] = HeadAfter(Completed)
            /\ \A i \in 1..(Len(snake_body) - 1) :
                   \E d \in Dirs :
                       snake_body[i] =
                           <<snake_body[i + 1][1] + Delta(d)[1],
                             snake_body[i + 1][2] + Delta(d)[2]>>
            /\ Cardinality(Range(snake_body)) = Len(snake_body)
            /\ Range(snake_body) = snake_set
            /\ Len(snake_body) = 1 + Cardinality(Eaten)
            /\ food_set = food \ Eaten)
    /\ [][(step' = step + 1 /\ snake_pc' = "moving") =>
            IF Target(directions[step']) \in food_set
            THEN /\ Len(snake_body') = Len(snake_body) + 1
                 /\ food_set' = food_set \ {Target(directions[step'])}
            ELSE /\ Len(snake_body') = Len(snake_body)
                 /\ food_set' = food_set]_vars
    /\ [][food' = food]_vars

\* The repository's test 'Eat all food and survive' has returned its
\* expected body.
C15_Witness ==
    /\ snake_pc = "returned"
    /\ grid = <<3, 3>>
    /\ directions = <<"U", "R">>
    /\ food = {<<0, 1>>, <<0, 2>>}
    /\ food_set = {}
    /\ snake_result = <<<<0, 2>>, <<0, 1>>, <<1, 1>>>>

\* The words of a sentence as C16 words them: the maximal runs without a
\* blank, in order, each lowercased and with its punctuation removed, the
\* empty ones dropped. The sentences checked have the blank as their only
\* whitespace, A as their only capital and , ! ? as their punctuation; the
\* underscore counts as part of a word.
ExpectedWords(s) ==
    LET blank(i) == s[i] = " "
        starts == {i \in DOMAIN s : ~blank(i) /\ (i = 1 \/ blank(i - 1))}
        stop(i) == CHOOSE j \in i..Len(s) :
                       /\ \A k \in i..j : ~blank(k)
                       /\ j = Len(s) \/ blank(j + 1)
        nth(n) == CHOOSE i \in starts :
                      Cardinality({j \in starts : j < i}) = n - 1
        lowered(c) == IF c = "A" THEN "a" ELSE c
        word(i) == SelectSeq([k \in 1..(stop(i) - i + 1) |->
                                  lowered(s[i + k - 1])],
                             LAMBDA c : c \notin {",", "!", "?"})
        all == [n \in 1..Cardinality(starts) |-> word(nth(n))]
    IN  SelectSeq(all, LAMBDA w : w # <<>>)

\* The number of distinct words up to the first occurrence of ws[i].
FirstOccurrenceRank(ws, i) ==
    LET first == CHOOSE f \in 1..i :
                     ws[f] = ws[i] /\ \A g \in 1..(f - 1) : ws[g] # ws[i]
    IN  Cardinality({ws[j] : j \in 1..first})

RECURSIVE SpacedText(_)
SpacedText(ws) ==
    IF ws = <<>> THEN <<>>
    ELSE IF Len(ws) = 1 THEN ws[1]
    ELSE SpacedText(SubSeq(ws, 1, Len(ws) - 1)) \o <<" ">> \o ws[Len(ws)]

\* C16: compress_sentence gives the cleaned words the IDs 1, 2, 3, ... in
\* the order of their first occurrence, without a gap, the same ID to every
\* occurrence of a word and different IDs to different words, and
\* decompress_sentence on its result gives the lowercased,
\* punctuation-stripped, non-empty words of the sentence joined by single
\* spaces.
C16_RoundTrip ==
    LET ws == ExpectedWords(sentence)
    IN  /\ comp_pc \in {"compressed", "decompressed"} =>
            /\ Len(encoded) = Len(ws)
            /\ \A i \in DOMAIN ws : encoded[i] = FirstOccurrenceRank(ws, i)
            /\ DOMAIN id_to_word = 1..Cardinality(Range(ws))
            /\ \A i, j \in DOMAIN ws :
                   (ws[i] = ws[j]) <=> (encoded[i] = encoded[j])
            /\ \A i \in DOMAIN ws : id_to_word[encoded[i]] = ws[i]
        /\ comp_pc = "decompressed" => decompressed = SpacedText(ws)

\* The test 'Basic compression' has its expected encoding, and the round
\* trip gives the sentence back.
C16_Witness ==
    /\ comp_pc = "decompressed"
    /\ sentence = TheCatSat
    /\ encoded = <<1, 2, 3, 4, 1, 5>>
    /\ decompressed = TheCatSat

\* The average of a score list in hundredths, as the result reports it: 0
\* for no scores, else the hundredth nearest to total / count.
ReportedAverage(scores) ==
    LET total == IF scores = <<>> THEN 0
                 ELSE IF Len(scores) = 1 THEN scores[1]
                 ELSE scores[1] + scores[2]
        n == Len(scores)
    IN  IF n = 0 THEN 0
        ELSE CHOOSE h \in 0..total :
                 /\ 2 * (total - 10 * n * h) < 10 * n
                 /\ 2 * (10 * n * h - total) < 10 * n

\* u comes before v in ascending order of names: at the first position
\* where they part u has the smaller character, or u ends there.
NameBefore(u, v) ==
    LET common == {i \in DOMAIN u \cap DOMAIN v : u[i] # v[i]}
    IN  IF common = {} THEN Len(u) < Len(v)
        ELSE LET first == CHOOSE i \in common : \A j \in common : i <= j
             IN  u[first] < v[first]

\* C17: rank_students returns every student of the input exactly once, with
\* the student's average, ordered by average descending (a student with a
\* higher average is never behind one with a lower average), students of
\* equal average by name ascending.
C17_Ranking ==
    rank_pc = "returned" =>
        /\ Len(ranked_students) = Len(students_dict)
        /\ \A k \in DOMAIN students_dict :
               Cardinality({i \in DOMAIN ranked_students :
                               ranked_students[i][1] = students_dict[k][1]}) = 1
        /\ \A i \in DOMAIN ranked_students :
               \E k \in DOMAIN students_dict :
                   /\ ranked_students[i][1] = students_dict[k][1]
                   /\ ranked_students[i][2] =
                          ReportedAverage(students_dict[k][2])
        /\ \A i, j \in DOMAIN ranked_students :
               i < j =>
                   /\ ranked_students[i][2] >= ranked_students[j][2]
                   /\ ranked_students[i][2] = ranked_students[j][2] =>
                          NameBefore(ranked_students[i][1],
                                     ranked_students[j][1])

\* Three students returned, the first with the highest average, the other
\* two tied and in name order, the last of them first in the input.
C17_Witness ==
    /\ rank_pc = "returned"
    /\ Len(ranked_students) = 3
    /\ ranked_students[1][2] > ranked_students[2][2]
    /\ ranked_students[2][2] = ranked_students[3][2]
    /\ students_dict[1][1] = ranked_students[3][1]

\* C21: the SearchState invariant. Every entry (current, path) placed in the
\* queue has path[0] = start and path[-1] = current, consecutive path
\* elements at Hamming distance 1, every element after the first in L, and
\* no token twice in the path. (An entry placed in the queue is in it in the
\* state its iteration leaves, so the entries of the queue of every state
\* are all the entries ever placed.)
C21_SearchState ==
    \A k \in DOMAIN queue :
        LET current == queue[k].word
            path == queue[k].path
        IN  /\ path # <<>>
            /\ path[1] = start
            /\ path[Len(path)] = current
            /\ \A i \in 1..(Len(path) - 1) : Hamming1(path[i], path[i + 1])
            /\ \A i \in 2..Len(path) : path[i] \in Lex
            /\ Cardinality(Range(path)) = Len(path)

\* The queue holds an entry two steps from start, behind another entry.
C21_Witness ==
    /\ pc = "EXPANDING"
    /\ Len(queue) >= 2
    /\ Len(queue[Len(queue)].path) >= 3
    /\ start \notin Lex

\* The tokens one substitution of a letter a-z away from w.
Neighbours(w) ==
    {[w EXCEPT ![i] = c] : i \in DOMAIN w, c \in Range(AtoZ)} \ {w}

\* The BFS that defers the decision to the end of the level: `level` is the
\* set of tokens at `depth` steps from start, `seen` the tokens admitted so
\* far. It expands the whole level and only then looks whether end was among
\* the candidates. The value is the number of tokens of the path found, 0
\* when the frontier runs dry.
RECURSIVE DeferredLength(_, _, _)
DeferredLength(level, seen, depth) ==
    IF level = {} THEN 0
    ELSE LET produced == UNION {Neighbours(w) : w \in level}
             admitted == (produced \cap (Lex \cup {start})) \ seen
         IN  IF end \in produced THEN depth + 2
             ELSE DeferredLength(admitted, seen \cup admitted, depth + 1)

\* C22: early-exit equivalence. A search (start # end, end in L) that
\* returns at the first candidate equal to end finds a path exactly when the
\* BFS that decides at the end of each level finds one, and the path it
\* returns has that BFS's length: the first candidate equal to end is
\* produced at the minimum depth.
C22_EarlyExit ==
    (Returned /\ start # end /\ end \in Lex) =>
        Len(result) = DeferredLength({start}, {start}, 0)

\* The call returned a path in the middle of a level: an entry of the depth
\* of the one whose candidate was end is still in the queue, unexpanded.
C22_Witness ==
    /\ pc = "FOUND"
    /\ Len(result) >= 3
    /\ \E k \in DOMAIN queue : Len(queue[k].path) = Len(result) - 1

\* The candidates of a lowercase token as C23 lists them: 25 per position,
\* position by position, the k-th of a position carrying the k-th letter of
\* a..z without the token's own letter there.
ExpectedCandidates(w) ==
    [m \in 1..(25 * Len(w)) |->
        LET i == ((m - 1) \div 25) + 1
            k == ((m - 1) % 25) + 1
            own == CHOOSE j \in DOMAIN AtoZ : AtoZ[j] = w[i]
        IN  [w EXCEPT ![i] = AtoZ[IF k < own THEN k ELSE k + 1]]]

\* C23: neighbour generation. An iteration that dequeues a lowercase token
\* of length n and does not return examines exactly the n * 25 tokens that
\* differ from it in one position by another letter, in increasing position
\* order and a-to-z within a position; the token is not among them, and the
\* list is a function of the token alone.
C23_Neighbours ==
    [][(/\ Len(dequeued') = Len(dequeued) + 1
        /\ pc' = "EXPANDING"
        /\ Lowercase(dequeued'[Len(dequeued')]))
          => LET token == dequeued'[Len(dequeued')]
             IN  /\ examined' = examined \o ExpectedCandidates(token)
                 /\ Len(examined') = Len(examined) + 25 * Len(token)
                 /\ token \notin Range(ExpectedCandidates(token))]_vars

\* Two iterations have run without a return, the second on a three-letter
\* word taken from the lexicon.
C23_Witness ==
    /\ pc = "EXPANDING"
    /\ Len(dequeued) = 2
    /\ Len(dequeued[2]) = 3
    /\ Lowercase(dequeued[2])
    /\ Len(examined) = 150

\* C24: adding start to the lexicon has no effect on the outcome. For
\* start # end, the call on L with start added returns what the call on L
\* returned; and in every call start, visited from the setup on, is never
\* admitted as a candidate: it is enqueued once, first, and not again.
C24_StartAdded ==
    /\ (Returned /\ earlier.results # {}) => earlier.results = {result}
    /\ \A k \in 2..Len(enqueued) : enqueued[k] # start

\* The call on L with start added found a path of three or more tokens,
\* start was not in L in the first call, and start came up as a candidate
\* of a dequeued neighbour.
C24_Witness ==
    /\ pc = "FOUND"
    /\ earlier.results = {result}
    /\ Len(result) >= 3
    /\ start \in Lex
    /\ start \notin Range(earlier.order)
    /\ start \in Range(examined)

====
